---- MODULE Spec2Model ----
(***************************************************************************)
(* SpaceX Launch Records Dashboard (src/spacex-dash-app.py).               *)
(*                                                                         *)
(* The program loads a launch table once, lays out a site dropdown and a   *)
(* payload range slider, and registers two callbacks: get_pie_chart       *)
(* (Input: site-dropdown) and get_scatter_chart (Inputs: site-dropdown,    *)
(* payload-slider).  The model keeps the loaded table, the two control     *)
(* values, the callbacks that have been triggered and not yet answered,    *)
(* the locals of the last run of each callback and the two figures on      *)
(* display.                                                                *)
(***************************************************************************)
EXTENDS Integers, Sequences, FiniteSets, TLC

VARIABLES spacex_df,        \* the loaded table, a sequence of rows
          min_payload,      \* spacex_df['Payload Mass (kg)'].min()
          max_payload,      \* spacex_df['Payload Mass (kg)'].max()
          site_value,       \* site-dropdown.value
          payload_value,    \* payload-slider.value, <<low, high>>
          pending,          \* callbacks triggered and not yet answered
          pie_call,         \* locals of the last get_pie_chart run (<<>>: none yet)
          scatter_call,     \* locals of the last get_scatter_chart run (<<>>: none yet)
          pie_figure,       \* success-pie-chart.figure
          scatter_figure    \* success-payload-scatter-chart.figure

vars == <<spacex_df, min_payload, max_payload, site_value, payload_value,
          pending, pie_call, scatter_call, pie_figure, scatter_figure>>

----------------------------------------------------------------------------
(* Bounds of the model *)

\* rows of a table given to the two callbacks in SpecAgg
MaxRows == 3
\* rows of a table loaded by the dashboard in Spec
MaxDashRows == 1
\* slider stops above the minimum the user drags a handle to (besides the maximum)
MaxDrag == 0

(* Program constants *)

SliderMin == 0
SliderMax == 10000
SliderStep == 1000

ALL == "ALL"
\* Python's None: the value of a cleared dropdown
None == "None"

Sites == {"SiteA", "SiteB"}
PayloadValues == {500, 9600}
Boosters == {"v1"}
Classes == {0, 1}

----------------------------------------------------------------------------
(* The table *)

CsvRows == [launch_site : Sites, payload_mass : PayloadValues,
            booster : Boosters, class : Classes]

CsvFiles(n) == UNION {[1..k -> CsvRows] : k \in 1..n}

\* pd.read_csv: the rows in file order under a RangeIndex 0..n-1
read_csv(csv) ==
    [i \in 1..Len(csv) |->
        [index |-> i - 1, launch_site |-> csv[i].launch_site,
         payload_mass |-> csv[i].payload_mass, booster |-> csv[i].booster,
         class |-> csv[i].class]]

SeqMax(df) == CHOOSE m \in {df[i].payload_mass : i \in 1..Len(df)} :
                 \A i \in 1..Len(df) : df[i].payload_mass <= m
SeqMin(df) == CHOOSE m \in {df[i].payload_mass : i \in 1..Len(df)} :
                 \A i \in 1..Len(df) : df[i].payload_mass >= m

\* spacex_df['Launch Site'].unique()
UniqueSites(df) == {df[i].launch_site : i \in 1..Len(df)}

\* the options of site-dropdown, and None once the selection is cleared
DropdownValues(df) == {ALL} \cup UniqueSites(df) \cup {None}

----------------------------------------------------------------------------
(* Figures *)

\* dcc.Graph(id='success-pie-chart') before its first figure
EmptyPie == [title |-> <<>>, labels |-> <<>>, values |-> <<>>]
\* dcc.Graph(id='success-payload-scatter-chart') before its first figure
EmptyScatter == [title |-> <<>>, points |-> <<>>]

RECURSIVE SumWhere(_, _, _)
SumWhere(labels, values, l) ==
    IF labels = <<>> THEN 0
    ELSE (IF Head(labels) = l THEN Head(values) ELSE 0)
         + SumWhere(Tail(labels), Tail(values), l)

\* the sectors a pie trace draws: duplicated labels have their values summed
Sectors(fig) ==
    [l \in {fig.labels[i] : i \in 1..Len(fig.labels)} |->
        SumWhere(fig.labels, fig.values, l)]

----------------------------------------------------------------------------
(* get_pie_chart *)

\* spacex_df[spacex_df['Launch Site'] == entered_site]
SiteRows(df, entered_site) ==
    SelectSeq(df, LAMBDA r : r.launch_site = entered_site)

CountClass(df, c) == Cardinality({i \in 1..Len(df) : df[i].class = c})

\* filtered_df['class'].value_counts(): one entry per class that occurs, the
\* larger count first; equal counts keep the order of first occurrence
value_counts(df) ==
    LET n0 == CountClass(df, 0)
        n1 == CountClass(df, 1)
    IN  CASE n0 = 0 /\ n1 = 0 -> [index |-> <<>>, values |-> <<>>]
          [] n0 = 0 /\ n1 > 0 -> [index |-> <<1>>, values |-> <<n1>>]
          [] n0 > 0 /\ n1 = 0 -> [index |-> <<0>>, values |-> <<n0>>]
          [] n0 > 0 /\ n1 > 0 /\ (n0 > n1 \/ (n0 = n1 /\ df[1].class = 0))
                -> [index |-> <<0, 1>>, values |-> <<n0, n1>>]
          [] OTHER -> [index |-> <<1, 0>>, values |-> <<n1, n0>>]

InIndex(v, counts) == \E i \in 1..Len(counts.index) : counts.index[i] = v

PieNamesMutant(success_counts) ==
    IF Len(success_counts.index) = 2 THEN <<"Failed", "Success">> ELSE <<"Success">>

\* names=['Failed', 'Success'] if 0 in success_counts.index else ['Success']
PieNames(success_counts) ==
    IF InIndex(0, success_counts) THEN <<"Failed", "Success">> ELSE <<"Success">>

PieAllColumnsMutant(df) ==
    [names  |-> [i \in 1..Len(df) |-> df[i].launch_site],
     values |-> [i \in 1..Len(df) |-> 1]]

\* px.pie(spacex_df, values='class', names='Launch Site'): the two columns
PieAllColumns(df) ==
    [names  |-> [i \in 1..Len(df) |-> df[i].launch_site],
     values |-> [i \in 1..Len(df) |-> df[i].class]]

\* px.pie on two arrays: arguments of different lengths raise ValueError
PxRaises(names, values) == Len(names) # Len(values)

\* one run of get_pie_chart: its locals at the px.pie call, whether that call
\* raised, and the figure returned otherwise
get_pie_chart(df, entered_site) ==
    IF entered_site = ALL
    THEN LET cols == PieAllColumns(df)
         IN  [entered_site |-> entered_site,
              names |-> cols.names, values |-> cols.values, raised |-> FALSE,
              fig |-> [title |-> <<"Total Success Launches By Site">>,
                       labels |-> cols.names, values |-> cols.values]]
    ELSE LET filtered_df == SiteRows(df, entered_site)
             success_counts == value_counts(filtered_df)
             names == PieNames(success_counts)
         IN  [entered_site |-> entered_site,
              names |-> names, values |-> success_counts.values,
              raised |-> PxRaises(names, success_counts.values),
              fig |-> [title |-> <<"Total Success Launches for site", entered_site>>,
                       labels |-> names, values |-> success_counts.values]]

----------------------------------------------------------------------------
(* get_scatter_chart *)

PayloadMaskMutant(r, low, high) == r.payload_mass > low /\ r.payload_mass <= high

\* (spacex_df['Payload Mass (kg)'] >= low) & (spacex_df['Payload Mass (kg)'] <= high)
PayloadMask(r, low, high) == r.payload_mass >= low /\ r.payload_mass <= high

\* px.scatter: one marker per row of the frame it is given
ScatterPoints(df, hover) ==
    [i \in 1..Len(df) |->
        [index |-> df[i].index, x |-> df[i].payload_mass, y |-> df[i].class,
         color |-> df[i].booster, size |-> df[i].payload_mass,
         hover |-> IF hover THEN <<df[i].launch_site>> ELSE <<>>]]

get_scatter_chart(df, entered_site, payload_range) ==
    LET low == payload_range[1]
        high == payload_range[2]
        filtered_df == SelectSeq(df, LAMBDA r : PayloadMask(r, low, high))
    IN  IF entered_site = ALL
        THEN [title |-> <<"Correlation between Payload and Success for all Sites">>,
              points |-> ScatterPoints(filtered_df, TRUE)]
        ELSE LET site_filtered_df == SiteRows(filtered_df, entered_site)
             IN  [title |-> <<"Correlation between Payload and Success for site",
                              entered_site>>,
                  points |-> ScatterPoints(site_filtered_df, FALSE)]

----------------------------------------------------------------------------
(* Controls and callback registration *)

PIE == "success-pie-chart"
SCATTER == "success-payload-scatter-chart"
Callbacks == {PIE, SCATTER}

PieInputsMutant == {"payload-slider"}

\* @app.callback(Output('success-pie-chart', 'figure'), Input('site-dropdown', 'value'))
PieInputs == {"site-dropdown"}

ScatterInputsMutant == {"payload-slider"}

\* @app.callback(Output('success-payload-scatter-chart', 'figure'),
\*               [Input('site-dropdown', 'value'), Input('payload-slider', 'value')])
ScatterInputs == {"site-dropdown", "payload-slider"}

\* the callbacks a change of the control's value triggers
Triggered(control) ==
    (IF control \in PieInputs THEN {PIE} ELSE {})
    \cup (IF control \in ScatterInputs THEN {SCATTER} ELSE {})

\* the stops of payload-slider: min=0, max=10000, step=1000
SliderStops ==
    {SliderMin + k * SliderStep : k \in 0..((SliderMax - SliderMin) \div SliderStep)}

\* the stops the user drags a handle to
SliderPicks ==
    {p \in SliderStops : p <= SliderMin + MaxDrag * SliderStep} \cup {SliderMax}

MoveHandleMutant(value, h, v) == [value EXCEPT ![h] = v]

\* a handle of the RangeSlider dragged to stop v: the value stays [low, high]
MoveHandle(value, h, v) ==
    LET moved == [value EXCEPT ![h] = v]
    IN  IF moved[1] <= moved[2] THEN moved ELSE <<moved[2], moved[1]>>

----------------------------------------------------------------------------
(* The dashboard *)

\* lines 11-13 load the table; the layout sets the dropdown to 'ALL' and the
\* slider to [min_payload, max_payload]; on page load every callback is
\* triggered once
Loaded(csv) ==
    /\ spacex_df = read_csv(csv)
    /\ min_payload = SeqMin(read_csv(csv))
    /\ max_payload = SeqMax(read_csv(csv))
    /\ pending = Callbacks
    /\ pie_call = <<>>
    /\ scatter_call = <<>>
    /\ pie_figure = EmptyPie
    /\ scatter_figure = EmptyScatter

Init ==
    \E csv \in CsvFiles(MaxDashRows) :
        /\ Loaded(csv)
        /\ site_value = ALL
        /\ payload_value = <<SeqMin(read_csv(csv)), SeqMax(read_csv(csv))>>

\* the user picks another option of site-dropdown, or clears it
site_dropdown_change ==
    \E s \in DropdownValues(spacex_df) \ {site_value} :
        /\ site_value' = s
        /\ pending' = pending \cup Triggered("site-dropdown")
        /\ UNCHANGED <<spacex_df, min_payload, max_payload, payload_value,
                       pie_call, scatter_call, pie_figure, scatter_figure>>

\* the user drags one handle of payload-slider to another stop
payload_slider_change ==
    \E h \in {1, 2}, v \in SliderPicks :
        /\ MoveHandle(payload_value, h, v) # payload_value
        /\ payload_value' = MoveHandle(payload_value, h, v)
        /\ pending' = pending \cup Triggered("payload-slider")
        /\ UNCHANGED <<spacex_df, min_payload, max_payload, site_value,
                       pie_call, scatter_call, pie_figure, scatter_figure>>

\* the triggered get_pie_chart runs on the dropdown's value and its figure is
\* displayed; a run that raises leaves the displayed figure as it was
UpdatePieChart ==
    /\ PIE \in pending
    /\ LET run == get_pie_chart(spacex_df, site_value)
       IN  /\ pie_call' = <<[entered_site |-> run.entered_site, names |-> run.names,
                              values |-> run.values, raised |-> run.raised]>>
           /\ pie_figure' = IF run.raised THEN pie_figure ELSE run.fig
    /\ pending' = pending \ {PIE}
    /\ UNCHANGED <<spacex_df, min_payload, max_payload, site_value, payload_value,
                   scatter_call, scatter_figure>>

UpdateScatterChartMutant ==
    /\ SCATTER \in pending
    /\ scatter_call' = <<[entered_site |-> site_value, payload_range |-> payload_value]>>
    /\ scatter_figure' = get_scatter_chart(spacex_df, site_value, payload_value)
    /\ spacex_df' = SelectSeq(spacex_df,
                        LAMBDA r : PayloadMask(r, payload_value[1], payload_value[2]))
    /\ pending' = pending \ {SCATTER}
    /\ UNCHANGED <<min_payload, max_payload, site_value, payload_value,
                   pie_call, pie_figure>>

\* the triggered get_scatter_chart runs on the two controls' values and its
\* figure is displayed
UpdateScatterChart ==
    /\ SCATTER \in pending
    /\ scatter_call' = <<[entered_site |-> site_value, payload_range |-> payload_value]>>
    /\ scatter_figure' = get_scatter_chart(spacex_df, site_value, payload_value)
    /\ pending' = pending \ {SCATTER}
    /\ UNCHANGED <<spacex_df, min_payload, max_payload, site_value, payload_value,
                   pie_call, pie_figure>>

Next ==
    \/ site_dropdown_change
    \/ payload_slider_change
    \/ UpdatePieChart
    \/ UpdateScatterChart

Spec == Init /\ [][Next]_vars

----------------------------------------------------------------------------
(* The two callbacks alone, on any table, site and payload range *)

SiteArgs == {ALL} \cup Sites \cup {None}
RangeArgs == (PayloadValues \cup {SliderMin}) \X (PayloadValues \cup {SliderMin})

InitAgg ==
    \E csv \in CsvFiles(MaxRows) :
        /\ Loaded(csv)
        /\ site_value \in SiteArgs
        /\ payload_value \in RangeArgs

NextAgg ==
    \/ UpdatePieChart
    \/ UpdateScatterChart

SpecAgg == InitAgg /\ [][NextAgg]_vars

----------------------------------------------------------------------------
(* Properties *)

RowsAt(site) == {i \in 1..Len(spacex_df) : spacex_df[i].launch_site = site}
RowsOf(site, c) == {i \in RowsAt(site) : spacex_df[i].class = c}
UnknownSite(site) == site \notin ({ALL} \cup UniqueSites(spacex_df))

PieRan == pie_call # <<>>
ScatterRan == scatter_call # <<>>

\* the rows a scatter chart for (site, low, high) has to plot
Matching(site, low, high) ==
    {i \in 1..Len(spacex_df) :
        /\ low <= spacex_df[i].payload_mass
        /\ spacex_df[i].payload_mass <= high
        /\ (site # ALL => spacex_df[i].launch_site = site)}

\* C1: the scatter chart of a run of get_scatter_chart plots exactly the rows
\* with low <= payload <= high (both ends included) that are of the entered
\* site unless that is ALL, each once and with its own payload and outcome,
\* and plots nothing when low > high.
C1_ScatterPlotsExactlyMatchingRows ==
    ScatterRan =>
        LET site == scatter_call[1].entered_site
            low == scatter_call[1].payload_range[1]
            high == scatter_call[1].payload_range[2]
            pts == scatter_figure.points
        IN  /\ Len(pts) = Cardinality(Matching(site, low, high))
            /\ {pts[k].index : k \in 1..Len(pts)}
                  = {spacex_df[i].index : i \in Matching(site, low, high)}
            /\ \A k \in 1..Len(pts) :
                  /\ pts[k].x = spacex_df[pts[k].index + 1].payload_mass
                  /\ pts[k].y = spacex_df[pts[k].index + 1].class
            /\ (low > high => pts = <<>>)

\* a run for one site that keeps a row whose payload is the lower end of the
\* range and drops another row of the table
C1_Witness ==
    /\ ScatterRan
    /\ scatter_call[1].entered_site \in Sites
    /\ scatter_figure.points # <<>>
    /\ Len(scatter_figure.points) < Len(spacex_df)
    /\ \E k \in 1..Len(scatter_figure.points) :
          scatter_figure.points[k].x = scatter_call[1].payload_range[1]

\* C2: for a site with launches of both classes the pie chart pairs "Failed"
\* with the number of the site's class 0 rows and "Success" with the number
\* of its class 1 rows.
C2_PieSiteLabelsMatchCounts ==
    (/\ PieRan
     /\ pie_call[1].entered_site \in Sites
     /\ RowsOf(pie_call[1].entered_site, 0) # {}
     /\ RowsOf(pie_call[1].entered_site, 1) # {})
    => /\ ~pie_call[1].raised
       /\ DOMAIN Sectors(pie_figure) = {"Failed", "Success"}
       /\ Sectors(pie_figure)["Failed"]
             = Cardinality(RowsOf(pie_call[1].entered_site, 0))
       /\ Sectors(pie_figure)["Success"]
             = Cardinality(RowsOf(pie_call[1].entered_site, 1))

\* C3: the pie chart for ALL has one sector per distinct launch site, whose
\* value is the number of the site's rows of class 1 (at most the number of
\* its rows, 0 for a site without a success).
C3_PieAllCountsSuccessesPerSite ==
    (PieRan /\ pie_call[1].entered_site = ALL)
    => /\ ~pie_call[1].raised
       /\ DOMAIN Sectors(pie_figure) = UniqueSites(spacex_df)
       /\ \A site \in UniqueSites(spacex_df) :
             /\ Sectors(pie_figure)[site] = Cardinality(RowsOf(site, 1))
             /\ Sectors(pie_figure)[site] <= Cardinality(RowsAt(site))

\* a pie chart for ALL over a site without a success and a site with both a
\* success and a failure
C3_Witness ==
    /\ PieRan
    /\ pie_call[1].entered_site = ALL
    /\ \E a, b \in UniqueSites(spacex_df) :
          /\ Sectors(pie_figure)[a] = 0
          /\ Sectors(pie_figure)[b] > 0
          /\ Sectors(pie_figure)[b] < Cardinality(RowsAt(b))

\* get_pie_chart ran for a site all of whose rows are of class 0
PieRanOnAllFailedSite ==
    /\ PieRan
    /\ pie_call[1].entered_site \in Sites
    /\ RowsOf(pie_call[1].entered_site, 0) # {}
    /\ RowsOf(pie_call[1].entered_site, 1) = {}

C5_UnknownSiteGivesEmptyCharts ==
    /\ (PieRan /\ UnknownSite(pie_call[1].entered_site))
         => /\ ~pie_call[1].raised
            /\ pie_call[1].names = <<>>
            /\ pie_call[1].values = <<>>
    /\ (ScatterRan /\ UnknownSite(scatter_call[1].entered_site))
         => scatter_figure.points = <<>>

Least(a, b) == IF a <= b THEN a ELSE b
Greatest(a, b) == IF a >= b THEN a ELSE b

\* C6 as stated: the slider's value [low, high] has low <= high and both
\* within [min_payload, max_payload].
C6_RangeWithinLoadedPayloads ==
    /\ payload_value[1] <= payload_value[2]
    /\ min_payload <= payload_value[1]
    /\ payload_value[2] <= max_payload

\* C6 amended: the slider's value [low, high] has low <= high and both within
\* the slider's own bounds [0, 10000] widened to hold the default
\* [min_payload, max_payload].
C6_RangeWithinSliderBounds ==
    /\ payload_value[1] <= payload_value[2]
    /\ Least(SliderMin, min_payload) <= payload_value[1]
    /\ payload_value[2] <= Greatest(SliderMax, max_payload)

\* the user has dragged a handle outside the payloads of the table
C6_Witness ==
    /\ payload_value # <<min_payload, max_payload>>
    /\ (payload_value[1] < min_payload \/ payload_value[2] > max_payload)

\* C7 as stated: every change of a control's value triggers both callbacks.
C7_EveryChangeTriggersBoth ==
    [][(site_value' # site_value \/ payload_value' # payload_value)
          => {PIE, SCATTER} \subseteq pending']_vars

\* C7 amended: a change of the site triggers both callbacks; a change of the
\* payload range triggers get_scatter_chart and not get_pie_chart.
C7_ChangeTriggersItsCallbacks ==
    [][/\ site_value' # site_value => {PIE, SCATTER} \subseteq pending'
       /\ payload_value' # payload_value
            => /\ SCATTER \in pending'
               /\ (PIE \in pending' <=> PIE \in pending)]_vars

\* the payload range was changed after the pie chart was answered: only
\* get_scatter_chart is triggered
C7_Witness ==
    /\ PieRan
    /\ ScatterRan
    /\ scatter_call[1].payload_range # payload_value
    /\ scatter_call[1].entered_site = site_value
    /\ pending = {SCATTER}

\* the site a displayed figure was made for, as its title tells
FigureSite(fig) == IF Len(fig.title) = 1 THEN ALL ELSE fig.title[2]

PieIsCurrent ==
    /\ ~get_pie_chart(spacex_df, site_value).raised
    /\ pie_figure = get_pie_chart(spacex_df, site_value).fig

ScatterIsCurrent ==
    scatter_figure = get_scatter_chart(spacex_df, site_value, payload_value)

C9_CallbacksLeaveLoadedDataUnchanged ==
    [][/\ spacex_df' = spacex_df
       /\ min_payload' = min_payload
       /\ max_payload' = max_payload
       /\ (scatter_call' # <<>>) =>
             scatter_figure' = get_scatter_chart(spacex_df',
                                                 scatter_call'[1].entered_site,
                                                 scatter_call'[1].payload_range)
       /\ (pie_call' # <<>> /\ ~pie_call'[1].raised) =>
             pie_figure' = get_pie_chart(spacex_df', pie_call'[1].entered_site).fig]_vars

C9_Witness ==
    /\ PieRan
    /\ ScatterRan
    /\ pending = {}
    /\ scatter_call[1].entered_site \in Sites
    /\ scatter_figure.points # <<>>

\* C10: once every triggered callback has completed, the displayed pie chart
\* is the one for the current site and the displayed scatter chart the one
\* for the current site and payload range.
C10_ChartsCurrentWhenNothingPending ==
    pending = {} => (PieIsCurrent /\ ScatterIsCurrent)

====
